---- MODULE Spec2Model ----
(***************************************************************************)
(* MoneyMinder backend: the Lambda handlers of functions/transactions.py,  *)
(* functions/budgets.py and functions/analytics.py over two DynamoDB       *)
(* tables (transactions, budgets) and the SES mail sender.                 *)
(*                                                                         *)
(* Money is held in hundredths (a Decimal with two fractional digits):     *)
(* Decimal addition and subtraction are exact on it.  float() is IEEE-754  *)
(* binary64 (53-bit significand, round-half-even) and Decimal division is  *)
(* the default context (28 significant digits, round-half-even); both are  *)
(* computed digit by digit so that their rounding is part of the model.    *)
(* Dates are <<year, month, day>> and compare as 'YYYY-MM-DD' strings do.  *)
(***************************************************************************)
EXTENDS Integers, Sequences, FiniteSets

VARIABLES
    transactions,   \* the transactions table
    budgets,        \* the budgets table
    clock,          \* the time datetime.now reads
    request,        \* the invocation being handled
    response,       \* what the handler returned
    before,         \* the tables as the pending invocation found them
    alerted         \* the (user, category) pairs an alert was sent for

vars == <<transactions, budgets, clock, request, response, before, alerted>>

(***************************************************************************)
(* Bounds and input domains                                                *)
(***************************************************************************)
MaxTxns == 2
MaxClock == 2

Users == {"u1", "u2"}
Categories == {"food", "transport"}
None == "<None>"
Absent == "<absent>"

Today == <<2024, 6, 30>>
Dates == {<<2024, 6, 30>>, <<2024, 7, 1>>}

NumAmount(v) == [kind |-> "num", v |-> v]
AmountInputs == {NumAmount(10), NumAmount(20),
                 [kind |-> "absent", v |-> 0], [kind |-> "text", v |-> 0]}
LimitInputs == {NumAmount(0), NumAmount(20), NumAmount(-100),
                [kind |-> "absent", v |-> 0], [kind |-> "text", v |-> 0]}
CategoryInputs == Categories \cup {None, Absent}
NoDate == <<>>
DateInputs == Dates \cup {NoDate}

(***************************************************************************)
(* Sequences of digits                                                     *)
(***************************************************************************)
Zeros(k) == [i \in 1..k |-> 0]

RECURSIVE SumSeq(_)
SumSeq(s) == IF s = <<>> THEN 0 ELSE Head(s) + SumSeq(Tail(s))

\* The digit operators split their argument in halves and thread the carry
\* or the remainder through the halves in order.

\* s * mul + add for a big-endian sequence s of naturals in the given base:
\* the carry out and as many digits (each below the base) as s has
RECURSIVE MulAdd(_, _, _, _)
MulAdd(s, mul, add, base) ==
    IF add = 0 /\ mul = 1 /\ \A i \in 1..Len(s) : s[i] < base
    THEN [carry |-> 0, digits |-> s]
    ELSE IF Len(s) = 0 THEN [carry |-> add, digits |-> s]
    ELSE IF Len(s) = 1
    THEN [carry |-> (s[1] * mul + add) \div base,
          digits |-> <<(s[1] * mul + add) % base>>]
    ELSE LET h == Len(s) \div 2
             low == MulAdd(SubSeq(s, h + 1, Len(s)), mul, add, base)
             high == MulAdd(SubSeq(s, 1, h), mul, low.carry, base)
         IN [carry |-> high.carry, digits |-> high.digits \o low.digits]

\* a + b for two big-endian digit sequences of the same length
AddDigits(a, b, base) == MulAdd([i \in 1..Len(a) |-> a[i] + b[i]], 1, 0, base)

\* long division of r / d, 0 <= r < d: the next k digits and the remainder
RECURSIVE DivDigits(_, _, _, _)
DivDigits(r, d, k, base) ==
    IF r = 0 \/ k = 0 THEN [digits |-> Zeros(k), rem |-> r]
    ELSE IF k = 1
    THEN [digits |-> <<(r * base) \div d>>, rem |-> (r * base) % d]
    ELSE LET h == k \div 2
             high == DivDigits(r, d, h, base)
             low == DivDigits(high.rem, d, k - h, base)
         IN [digits |-> high.digits \o low.digits, rem |-> low.rem]

\* scale n/d by powers of the base until d <= n < base * d: <<n, d, exponent>>
RECURSIVE Normalize(_, _, _, _)
Normalize(n, d, e, base) ==
    IF n >= base * d THEN Normalize(n, base * d, e + 1, base)
    ELSE IF n < d THEN Normalize(base * n, d, e - 1, base)
    ELSE <<n, d, e>>

(***************************************************************************)
(* float: IEEE-754 binary64.  A nonzero value is m[1].m[2]...m[53] * 2^e   *)
(* with m[1] = 1; positive values only (amounts here are positive).        *)
(***************************************************************************)
FloatPrecision == 53

FloatZero == [m |-> <<>>, e |-> 0]

\* round a significand of any length to 53 bits, ties to even
RoundToFloat(bits, sticky, e) ==
    IF Len(bits) <= FloatPrecision
    THEN [m |-> bits \o Zeros(FloatPrecision - Len(bits)), e |-> e]
    ELSE LET keep == SubSeq(bits, 1, FloatPrecision)
             guard == bits[FloatPrecision + 1]
             rest == sticky \/ \E i \in (FloatPrecision + 2)..Len(bits) : bits[i] = 1
             up == guard = 1 /\ (rest \/ keep[FloatPrecision] = 1)
             inc == MulAdd(keep, 1, 1, 2)
         IN IF ~up THEN [m |-> keep, e |-> e]
            ELSE IF inc.carry = 1
                 THEN [m |-> <<1>> \o Zeros(FloatPrecision - 1), e |-> e + 1]
                 ELSE [m |-> inc.digits, e |-> e]

\* float(Decimal) of cents/100: the nearest double
ToFloat(cents) ==
    IF cents = 0 THEN FloatZero
    ELSE LET nd == Normalize(cents, 100, 0, 2)
             q == DivDigits(nd[1] - nd[2], nd[2], FloatPrecision, 2)
         IN RoundToFloat(<<1>> \o q.digits, q.rem > 0, nd[3])

\* a + b in binary64
FloatAdd(a, b) ==
    IF a = FloatZero THEN b
    ELSE IF b = FloatZero THEN a
    ELSE LET hi == IF a.e >= b.e THEN a ELSE b
             lo == IF a.e >= b.e THEN b ELSE a
             k == hi.e - lo.e
             s == AddDigits(hi.m \o Zeros(k), Zeros(k) \o lo.m, 2)
         IN IF s.carry = 1 THEN RoundToFloat(<<1>> \o s.digits, FALSE, hi.e + 1)
            ELSE RoundToFloat(s.digits, FALSE, hi.e)

RECURSIVE FloatSum(_)
FloatSum(fs) ==
    IF fs = <<>> THEN FloatZero
    ELSE FloatAdd(FloatSum(SubSeq(fs, 1, Len(fs) - 1)), fs[Len(fs)])

(***************************************************************************)
(* Decimal quotients: c[1].c[2]...c[28] * 10^e with c[1] # 0, or zero.     *)
(***************************************************************************)
DecimalPrecision == 28

DecimalZero == [c |-> <<>>, e |-> 0]

\* Decimal(n) / Decimal(d) for n >= 0, d > 0 in the default context
DecimalDivide(n, d) ==
    IF n = 0 THEN DecimalZero
    ELSE LET nd == Normalize(n, d, 0, 10)
             q == DivDigits(nd[1] % nd[2], nd[2], DecimalPrecision - 1, 10)
             c == <<nd[1] \div nd[2]>> \o q.digits
             up == \/ 2 * q.rem > nd[2]
                   \/ 2 * q.rem = nd[2] /\ c[DecimalPrecision] % 2 = 1
             inc == MulAdd(c, 1, 1, 10)
         IN IF ~up THEN [c |-> c, e |-> nd[3]]
            ELSE IF inc.carry = 1
                 THEN [c |-> <<1>> \o Zeros(DecimalPrecision - 1), e |-> nd[3] + 1]
                 ELSE [c |-> inc.digits, e |-> nd[3]]

\* x * 100: the coefficient is kept, the exponent moves by two
DecimalTimes100(x) == IF x = DecimalZero THEN x ELSE [c |-> x.c, e |-> x.e + 2]

Decimal100 == [c |-> <<1>> \o Zeros(DecimalPrecision - 1), e |-> 2]

\* DecimalEncoder.default: a whole Decimal is rendered as an int, any other
\* one as the nearest float
JsonNumber(cents) ==
    IF cents % 100 = 0 THEN [type |-> "int", int |-> cents \div 100, float |-> FloatZero]
    ELSE [type |-> "float", int |-> 0, float |-> ToFloat(cents)]

(***************************************************************************)
(* Dates                                                                   *)
(***************************************************************************)
\* a <= b for 'YYYY-MM-DD' strings
DateLE(a, b) ==
    \/ a[1] < b[1]
    \/ a[1] = b[1] /\ a[2] < b[2]
    \/ a[1] = b[1] /\ a[2] = b[2] /\ a[3] <= b[3]

\* now.strftime('%Y-%m'), now.strftime('%Y-%m-01'), now.strftime('%Y-%m-%d')
CurrentMonth == SubSeq(Today, 1, 2)
StartOfMonth == <<Today[1], Today[2], 1>>

\* begins_with(date, month)
BeginsWith(date, month) == SubSeq(date, 1, 2) = month

(***************************************************************************)
(* The tables.  transactions is the table in sort-key order (a new uuid    *)
(* may sort anywhere; here it sorts last, every order of every multiset of *)
(* items is still reachable).  budgets is the set of items of the table    *)
(* whose primary key is (userId, category).                                *)
(***************************************************************************)
CategoryOrder == <<"food", "transport">>

RECURSIVE SetToSeq(_)
SetToSeq(S) ==
    IF S = {} THEN <<>>
    ELSE LET x == CHOOSE y \in S : TRUE IN <<x>> \o SetToSeq(S \ {x})

Reverse(s) == [i \in 1..Len(s) |-> s[Len(s) + 1 - i]]

\* the table rejects an item whose index key attribute is not a string
ItemAccepted(item) == item.category \in Categories

\* transactions_table.put_item
PutTransaction(table, item) == Append(table, item)

\* a put_item that appends
PutBudgetAppend(table, item) == table \cup {item}

\* budgets_table.put_item: the item replaces the one with the same key
PutBudget(table, item) ==
    {b \in table : ~(b.userId = item.userId /\ b.category = item.category)}
        \cup {item}

\* budgets_table.get_item: the items under the key (none: no 'Item')
GetBudget(table, user, category) ==
    {b \in table : b.userId = user /\ b.category = category}

\* budgets_table.query(userId = :uid): the user's items in range-key order
RECURSIVE QueryBudgetsFrom(_, _, _)
QueryBudgetsFrom(table, user, i) ==
    IF i > Len(CategoryOrder) THEN <<>>
    ELSE SetToSeq(GetBudget(table, user, CategoryOrder[i]))
            \o QueryBudgetsFrom(table, user, i + 1)

QueryBudgets(table, user) == QueryBudgetsFrom(table, user, 1)

\* transactions_table.query(userId = :uid)
QueryByUser(table, user) == SelectSeq(table, LAMBDA t : t.userId = user)

\* ... FilterExpression '#dt BETWEEN :start AND :end'
QueryByUserAndDateRange(table, user, start, end) ==
    SelectSeq(table, LAMBDA t : /\ t.userId = user
                                /\ DateLE(start, t.date)
                                /\ DateLE(t.date, end))

\* CategoryIndex query (userId = :uid AND category = :cat)
QueryByUserAndCategory(table, user, category) ==
    SelectSeq(table, LAMBDA t : t.userId = user /\ t.category = category)

\* ... FilterExpression 'begins_with(#dt, :month)'
QueryByUserCategoryAndDatePrefix(table, user, category, month) ==
    SelectSeq(table, LAMBDA t : /\ t.userId = user
                                /\ t.category = category
                                /\ BeginsWith(t.date, month))

Amounts(items) == [i \in 1..Len(items) |-> items[i].amount]

(***************************************************************************)
(* Invocations and responses                                               *)
(***************************************************************************)
NoRequest == [op |-> "none"]
NoResponse == [op |-> "none", statusCode |-> 0, error |-> None]
NoSnapshot == [transactions |-> <<>>, budgets |-> {}, alerted |-> {}]

\* a handler is entered with a request and finds the tables as they are
Invoke(req) ==
    /\ request' = req
    /\ before' = [transactions |-> transactions, budgets |-> budgets,
                  alerted |-> alerted]

\* the except branch of a handler: statusCode 500, body {'error': str(e)}
ErrorResponse(op, e) == [op |-> op, statusCode |-> 500, error |-> e]

\* a conversion that accepts anything
DecimalErrorNever(x) == None

\* decimal.Decimal(str(x)): the exception it raises, None when it converts
DecimalError(x) ==
    IF x.kind = "num" THEN None ELSE "ConversionSyntax"

\* put_item: the exception it raises, None when the item is written
PutItemError(item, fail) ==
    IF ~ItemAccepted(item) THEN "ValidationException"
    ELSE IF fail THEN "ServiceError"
    ELSE None

(***************************************************************************)
(* transactions.py                                                         *)
(***************************************************************************)
\* the item built at lines 47-56; body.get gives None for an absent field
NewTransaction(user, amount, category, date) ==
    [userId |-> user,
     transactionId |-> Len(transactions) + 1,
     amount |-> amount.v,
     category |-> IF category = Absent THEN None ELSE category,
     date |-> IF date = NoDate THEN Today ELSE date,
     createdAt |-> clock,
     paymentMethod |-> "other"]

\* a comparison that also fires on the boundary
BudgetExceededInclusive(total_spent, budget_limit) == total_spent >= budget_limit

\* total_spent > budget_limit
BudgetExceeded(total_spent, budget_limit) == total_spent > budget_limit

\* the sum check_budget compares with the limit
MonthSpent(txnTable, user, category) ==
    SumSeq(Amounts(QueryByUserCategoryAndDatePrefix(txnTable, user, category,
                                                    CurrentMonth)))

CheckBudgetResult(sends) == [sends |-> sends, result |-> None, raised |-> FALSE]

\* a check_budget whose send is outside the inner try
CheckBudgetOutcomeSendRaises(budgetTable, txnTable, user, category, fail, alertedBefore) ==
    LET found == GetBudget(budgetTable, user, category)
        budget == CHOOSE b \in found : TRUE
        exceeded == /\ fail \notin {"get_item", "query"}
                    /\ found # {}
                    /\ BudgetExceeded(MonthSpent(txnTable, user, category),
                                      budget.limit)
    IN [sends |-> IF exceeded THEN 1 ELSE 0, result |-> None,
        raised |-> exceeded /\ fail = "send"]

\* what check_budget does: the send attempts it makes, what it returns and
\* whether it raises.  fail names the call that raises: "get_item", "query",
\* "send" or "none"; alertedBefore is not read (no suppression state).
CheckBudgetOutcome(budgetTable, txnTable, user, category, fail, alertedBefore) ==
    LET found == GetBudget(budgetTable, user, category)
        budget == CHOOSE b \in found : TRUE
    IN IF fail = "get_item" THEN CheckBudgetResult(0)
       ELSE IF found = {} THEN CheckBudgetResult(0)
       ELSE IF fail = "query" THEN CheckBudgetResult(0)
       ELSE IF BudgetExceeded(MonthSpent(txnTable, user, category), budget.limit)
            THEN CheckBudgetResult(1)
       ELSE CheckBudgetResult(0)

\* the alert sends create_transaction makes after its write: the call of
\* check_budget at line 64 is commented out
CreateTransactionSends(budgetTable, txnTable, user, category) == 0

create_transaction(user, amount, category, date, fail) ==
    LET item == NewTransaction(user, amount, category, date)
        e == IF DecimalError(amount) # None THEN DecimalError(amount)
             ELSE PutItemError(item, fail)
        written == PutTransaction(transactions, item)
    IN /\ e = None => Len(transactions) < MaxTxns
       /\ Invoke([op |-> "create_transaction", user |-> user, amount |-> amount,
                  category |-> category, date |-> date, fail |-> fail])
       /\ transactions' = IF e = None THEN written ELSE transactions
       /\ response' = IF e = None
                      THEN [op |-> "create_transaction", statusCode |-> 201,
                            error |-> None,
                            transactionId |-> item.transactionId,
                            sends |-> CreateTransactionSends(budgets, written,
                                                             user, category)]
                      ELSE ErrorResponse("create_transaction", e)
       /\ UNCHANGED <<budgets, clock, alerted>>

\* the items of the query get_transactions builds, most recent first
GetTransactionsItems(table, user, category) ==
    Reverse(IF category = Absent THEN QueryByUser(table, user)
            ELSE QueryByUserAndCategory(table, user, category))

\* the query is rejected when it has a date filter: 'date' is used in the
\* FilterExpression without an attribute-name alias
GetTransactionsError(startDate, endDate, fail) ==
    IF startDate # NoDate \/ endDate # NoDate THEN "ValidationException"
    ELSE IF fail THEN "ServiceError"
    ELSE None

JsonTransactions(items) ==
    [i \in 1..Len(items) |-> [items[i] EXCEPT !.amount = JsonNumber(@)]]

get_transactions(user, category, startDate, endDate, fail) ==
    LET e == GetTransactionsError(startDate, endDate, fail)
        items == GetTransactionsItems(transactions, user, category)
    IN /\ Invoke([op |-> "get_transactions", user |-> user,
                  category |-> category, startDate |-> startDate,
                  endDate |-> endDate, fail |-> fail])
       /\ response' = IF e = None
                      THEN [op |-> "get_transactions", statusCode |-> 200,
                            error |-> None,
                            transactions |-> JsonTransactions(items),
                            count |-> Len(items),
                            lastEvaluatedKey |-> None]
                      ELSE ErrorResponse("get_transactions", e)
       /\ UNCHANGED <<transactions, budgets, clock, alerted>>

check_budget(user, category, fail) ==
    LET out == CheckBudgetOutcome(budgets, transactions, user, category, fail,
                                  alerted)
    IN /\ Invoke([op |-> "check_budget", user |-> user, category |-> category,
                  fail |-> fail])
       /\ response' = [op |-> "check_budget", statusCode |-> 0, error |-> None,
                       sends |-> out.sends, result |-> out.result,
                       raised |-> out.raised]
       /\ alerted' = IF out.sends > 0 THEN alerted \cup {<<user, category>>}
                     ELSE alerted
       /\ UNCHANGED <<transactions, budgets, clock>>

(***************************************************************************)
(* budgets.py                                                              *)
(***************************************************************************)
\* the item built at lines 45-51
NewBudget(user, category, limit, now) ==
    [userId |-> user,
     category |-> category,
     limit |-> limit.v,
     createdAt |-> now,
     updatedAt |-> now]

\* body['category'], body['limit'] and the conversion of the limit
CreateBudgetInputError(category, limit) ==
    IF category = Absent \/ limit.kind = "absent" THEN "KeyError"
    ELSE DecimalError(limit)

create_budget(user, category, limit, fail) ==
    LET item == NewBudget(user, category, limit, clock)
        e == IF CreateBudgetInputError(category, limit) # None
             THEN CreateBudgetInputError(category, limit)
             ELSE PutItemError(item, fail)
    IN /\ Invoke([op |-> "create_budget", user |-> user, category |-> category,
                  limit |-> limit, fail |-> fail])
       /\ budgets' = IF e = None THEN PutBudget(budgets, item) ELSE budgets
       /\ response' = IF e = None
                      THEN [op |-> "create_budget", statusCode |-> 201,
                            error |-> None, category |-> category]
                      ELSE ErrorResponse("create_budget", e)
       /\ UNCHANGED <<transactions, clock, alerted>>

JsonBudgets(items) ==
    [i \in 1..Len(items) |-> [items[i] EXCEPT !.limit = JsonNumber(@)]]

get_budgets(user, fail) ==
    LET items == QueryBudgets(budgets, user)
    IN /\ Invoke([op |-> "get_budgets", user |-> user, fail |-> fail])
       /\ response' = IF ~fail
                      THEN [op |-> "get_budgets", statusCode |-> 200,
                            error |-> None,
                            budgets |-> JsonBudgets(items),
                            count |-> Len(items)]
                      ELSE ErrorResponse("get_budgets", "ServiceError")
       /\ UNCHANGED <<transactions, budgets, clock, alerted>>

(***************************************************************************)
(* analytics.py                                                            *)
(***************************************************************************)
\* the keys of a defaultdict after the loop over items, in insertion order
RECURSIVE CategoriesSeen(_)
CategoriesSeen(items) ==
    IF items = <<>> THEN <<>>
    ELSE LET seen == CategoriesSeen(SubSeq(items, 1, Len(items) - 1))
             c == items[Len(items)].category
         IN IF \E i \in 1..Len(seen) : seen[i] = c THEN seen
            ELSE Append(seen, c)

ItemsOfCategory(items, category) ==
    SelectSeq(items, LAMBDA t : t.category = category)

\* float(item['amount'])
FloatAmounts(items) == [j \in 1..Len(items) |-> ToFloat(items[j].amount)]

\* spending[item['category']] += float(item['amount']) over the items
FloatSpending(items) ==
    LET cats == CategoriesSeen(items)
    IN [i \in 1..Len(cats) |->
          [category |-> cats[i],
           total |-> FloatSum(FloatAmounts(ItemsOfCategory(items, cats[i])))]]

\* sum(spending.values())
TotalSpent(spending) == FloatSum([i \in 1..Len(spending) |-> spending[i].total])

analyze_spending(user, startDate, endDate, fail) ==
    LET start_date == IF startDate = NoDate THEN StartOfMonth ELSE startDate
        end_date == IF endDate = NoDate THEN Today ELSE endDate
        items == QueryByUserAndDateRange(transactions, user, start_date, end_date)
        spending == FloatSpending(items)
    IN /\ Invoke([op |-> "analyze_spending", user |-> user,
                  startDate |-> startDate, endDate |-> endDate, fail |-> fail])
       /\ response' = IF ~fail
                      THEN [op |-> "analyze_spending", statusCode |-> 200,
                            error |-> None,
                            startDate |-> start_date, endDate |-> end_date,
                            spendingByCategory |-> spending,
                            totalSpent |-> TotalSpent(spending)]
                      ELSE ErrorResponse("analyze_spending", "ServiceError")
       /\ UNCHANGED <<transactions, budgets, clock, alerted>>

\* spending[t['category']] += Decimal(str(t['amount'])), then
\* spending.get(category, Decimal('0'))
DecimalSpending(items, category) ==
    SumSeq(Amounts(ItemsOfCategory(items, category)))

\* (current / limit * 100) if limit > 0 else Decimal('0')
Percentage(current, limit) ==
    IF limit > 0 THEN DecimalTimes100(DecimalDivide(current, limit))
    ELSE DecimalZero

\* a remainder clamped at zero
RemainingClamped(limit, current) ==
    IF limit > current THEN limit - current ELSE 0

\* limit - current
Remaining(limit, current) == limit - current

\* the entry appended for one budget
StatusEntry(budget, items) ==
    LET current == DecimalSpending(items, budget.category)
    IN [category |-> budget.category,
        limit |-> budget.limit,
        spent |-> current,
        remaining |-> Remaining(budget.limit, current),
        percentageUsed |-> Percentage(current, budget.limit)]

\* a loop over the categories that have spending
BudgetStatusListOfSpending(budgetItems, items) ==
    LET spent == SelectSeq(budgetItems,
                           LAMBDA b : ItemsOfCategory(items, b.category) # <<>>)
    IN [i \in 1..Len(spent) |-> StatusEntry(spent[i], items)]

\* the loop over budgets
BudgetStatusList(budgetItems, items) ==
    [i \in 1..Len(budgetItems) |-> StatusEntry(budgetItems[i], items)]

\* fail names the query that raises: "budgets", "transactions" or "none"
budget_status(user, fail) ==
    LET budgetItems == QueryBudgets(budgets, user)
        items == QueryByUserAndDateRange(transactions, user, StartOfMonth, Today)
    IN /\ Invoke([op |-> "budget_status", user |-> user, fail |-> fail])
       /\ response' = IF fail = "none"
                      THEN [op |-> "budget_status", statusCode |-> 200,
                            error |-> None,
                            month |-> CurrentMonth,
                            budgetStatus |-> BudgetStatusList(budgetItems, items)]
                      ELSE ErrorResponse("budget_status", "ServiceError")
       /\ UNCHANGED <<transactions, budgets, clock, alerted>>

(***************************************************************************)
(* Invocations.  A handler runs when no response is pending; Return hands  *)
(* the response to the caller.  Tick is the clock read by datetime.now.    *)
(***************************************************************************)
Idle == response = NoResponse

Return ==
    /\ ~Idle
    /\ request' = NoRequest
    /\ response' = NoResponse
    /\ before' = NoSnapshot
    /\ UNCHANGED <<transactions, budgets, clock, alerted>>

Tick ==
    /\ Idle
    /\ clock < MaxClock
    /\ clock' = clock + 1
    /\ UNCHANGED <<transactions, budgets, request, response, before, alerted>>

Init ==
    /\ transactions = <<>>
    /\ budgets = {}
    /\ clock = 1
    /\ request = NoRequest
    /\ response = NoResponse
    /\ before = NoSnapshot
    /\ alerted = {}

(***************************************************************************)
(* SpecAnalyze: the transaction write path and the spending analysis       *)
(***************************************************************************)
CreateTransaction ==
    /\ Idle
    /\ \E user \in Users, amount \in AmountInputs, category \in CategoryInputs,
          date \in DateInputs, fail \in BOOLEAN :
           create_transaction(user, amount, category, date, fail)

AnalyzeSpending ==
    /\ Idle
    /\ \E user \in Users, startDate \in DateInputs, endDate \in DateInputs,
          fail \in BOOLEAN :
           analyze_spending(user, startDate, endDate, fail)

NextAnalyze == CreateTransaction \/ AnalyzeSpending \/ Return

SpecAnalyze == Init /\ [][NextAnalyze]_vars

(***************************************************************************)
(* SpecTxn: the transaction write path and the transaction listing         *)
(***************************************************************************)
GetTransactions ==
    /\ Idle
    /\ \E user \in Users, category \in Categories \cup {Absent},
          startDate \in DateInputs, endDate \in DateInputs, fail \in BOOLEAN :
           get_transactions(user, category, startDate, endDate, fail)

NextTxn == CreateTransaction \/ GetTransactions \/ Return

SpecTxn == Init /\ [][NextTxn]_vars

(***************************************************************************)
(* SpecBudget: the budget write path and the budget listing, over time     *)
(***************************************************************************)
CreateBudget ==
    /\ Idle
    /\ \E user \in Users, category \in CategoryInputs, limit \in LimitInputs,
          fail \in BOOLEAN :
           create_budget(user, category, limit, fail)

GetBudgets ==
    /\ Idle
    /\ \E user \in Users, fail \in BOOLEAN : get_budgets(user, fail)

NextBudget == CreateBudget \/ GetBudgets \/ Tick \/ Return

SpecBudget == Init /\ [][NextBudget]_vars

(***************************************************************************)
(* SpecStatus: both write paths and the budget status, over users,         *)
(* categories and dates                                                    *)
(***************************************************************************)
NextMonth == <<2024, 7, 1>>

StatusCreateTransaction ==
    /\ Idle
    /\ \E user \in Users, category \in Categories, date \in {NoDate, NextMonth} :
           create_transaction(user, NumAmount(10), category, date, FALSE)

StatusCreateBudget ==
    /\ Idle
    /\ \E user \in Users, category \in Categories :
           create_budget(user, category, NumAmount(20), FALSE)

BudgetStatus ==
    /\ Idle
    /\ \E user \in Users, fail \in {"none", "budgets", "transactions"} :
           budget_status(user, fail)

NextStatus ==
    StatusCreateTransaction \/ StatusCreateBudget \/ BudgetStatus \/ Return

SpecStatus == Init /\ [][NextStatus]_vars

(***************************************************************************)
(* SpecPercent: both write paths and the budget status of one user, over   *)
(* amounts and limits                                                      *)
(***************************************************************************)
PercentCreateTransaction ==
    /\ Idle
    /\ \E amount \in {NumAmount(10), NumAmount(20), NumAmount(40)},
          category \in Categories :
           create_transaction("u1", amount, category, NoDate, FALSE)

PercentCreateBudget ==
    /\ Idle
    /\ \E category \in Categories,
          limit \in {NumAmount(0), NumAmount(20), NumAmount(30)} :
           create_budget("u1", category, limit, FALSE)

NextPercent ==
    PercentCreateTransaction \/ PercentCreateBudget \/ BudgetStatus \/ Return

SpecPercent == Init /\ [][NextPercent]_vars

(***************************************************************************)
(* SpecAlert: both write paths with malformed payloads and store failures, *)
(* and check_budget called on its own                                      *)
(***************************************************************************)
AlertCreateTransaction ==
    /\ Idle
    /\ \E user \in Users,
          amount \in {a \in AmountInputs : a.kind # "num"} \cup {NumAmount(10)},
          category \in CategoryInputs, date \in {NoDate, NextMonth},
          fail \in BOOLEAN :
           create_transaction(user, amount, category, date, fail)

AlertCreateBudget ==
    /\ Idle
    /\ \E user \in Users, category \in {"food", None, Absent},
          limit \in {l \in LimitInputs : l.kind # "num"}
                        \cup {NumAmount(0), NumAmount(10)},
          fail \in BOOLEAN :
           create_budget(user, category, limit, fail)

CheckBudget ==
    /\ Idle
    /\ \E user \in Users, category \in Categories,
          fail \in {"none", "get_item", "query", "send"} :
           check_budget(user, category, fail)

NextAlert == AlertCreateTransaction \/ AlertCreateBudget \/ CheckBudget \/ Return

SpecAlert == Init /\ [][NextAlert]_vars

(***************************************************************************)
(* SpecRange: transactions around the window 2024-06-01..2024-06-30 and    *)
(* the two handlers that take a date range                                 *)
(***************************************************************************)
RangeStart == <<2024, 6, 1>>
RangeEnd == <<2024, 6, 30>>
StoredDates == {<<2024, 5, 31>>, RangeStart, RangeEnd, <<2024, 7, 1>>}
RangeInputs == {RangeStart, RangeEnd, NoDate}

RangeCreateTransaction ==
    /\ Idle
    /\ \E user \in Users, category \in Categories, date \in StoredDates :
           create_transaction(user, NumAmount(10), category, date, FALSE)

RangeAnalyzeSpending ==
    /\ Idle
    /\ \E user \in Users, startDate \in RangeInputs, endDate \in RangeInputs,
          fail \in BOOLEAN :
           analyze_spending(user, startDate, endDate, fail)

RangeGetTransactions ==
    /\ Idle
    /\ \E user \in Users, category \in Categories \cup {Absent},
          startDate \in RangeInputs, endDate \in RangeInputs, fail \in BOOLEAN :
           get_transactions(user, category, startDate, endDate, fail)

NextRange ==
    RangeCreateTransaction \/ RangeAnalyzeSpending \/ RangeGetTransactions
        \/ Return

SpecRange == Init /\ [][NextRange]_vars

(***************************************************************************)
(* Properties.  While a response is pending, request is the invocation it  *)
(* answers and before holds the tables that invocation found.              *)
(***************************************************************************)
SameKey(b, user, category) == b.userId = user /\ b.category = category

RECURSIVE SumOfAmounts(_, _)
SumOfAmounts(indices, table) ==
    IF indices = {} THEN 0
    ELSE LET i == CHOOSE j \in indices : TRUE
         IN table[i].amount + SumOfAmounts(indices \ {i}, table)

\* the sum of the amounts a (user, category) has in the current month
SpentThisMonth(table, user, category) ==
    SumOfAmounts({i \in 1..Len(table) :
                     /\ table[i].userId = user
                     /\ table[i].category = category
                     /\ table[i].date[1] = Today[1]
                     /\ table[i].date[2] = Today[2]}, table)

\* the sum of the amounts a (user, category) has from the first of the month
\* to today
SpentInWindow(table, user, category) ==
    SumOfAmounts({i \in 1..Len(table) :
                     /\ table[i].userId = user
                     /\ table[i].category = category
                     /\ table[i].date[1] = Today[1]
                     /\ table[i].date[2] = Today[2]
                     /\ table[i].date[3] <= Today[3]}, table)

TablesUnchanged ==
    transactions = before.transactions /\ budgets = before.budgets

(***************************************************************************)
(* C1: create_transaction                                                  *)
(***************************************************************************)
TransactionStored ==
    response.op = "create_transaction" /\ response.statusCode = 201

\* the stored transaction is of the current month and takes the month's
\* total of its category over the limit of the user's budget for it
StoredOverLimit ==
    /\ TransactionStored
    /\ transactions[Len(transactions)].date[1] = Today[1]
    /\ transactions[Len(transactions)].date[2] = Today[2]
    /\ \E b \in budgets :
          /\ SameKey(b, request.user, request.category)
          /\ SpentThisMonth(transactions, request.user, request.category)
                > b.limit

\* C1: when create_transaction has stored a transaction that takes the
\* user's current-month total of the category over the budget limit, the
\* same request has dispatched one budget alert.
C1_WriteThenEvaluateThenNotify == StoredOverLimit => response.sends = 1

(***************************************************************************)
(* C2, C6, C10: check_budget                                               *)
(***************************************************************************)
BudgetChecked == response.op = "check_budget"

ReadsSucceeded == request.fail \notin {"get_item", "query"}

OverLimit(user, category) ==
    \E b \in before.budgets :
        /\ SameKey(b, user, category)
        /\ SpentThisMonth(before.transactions, user, category) > b.limit

\* C2: a check_budget whose reads succeed attempts one send when a budget
\* exists for (user, category) and the month's total is above its limit, and
\* none otherwise, whether or not an alert was sent for the pair before.
C2_SendIffOverLimit ==
    (BudgetChecked /\ ReadsSucceeded) =>
        /\ response.sends \in {0, 1}
        /\ response.sends = 1 <=> OverLimit(request.user, request.category)

\* an alert is sent again for a pair that was alerted before
C2_Witness ==
    /\ BudgetChecked
    /\ ReadsSucceeded
    /\ response.sends = 1
    /\ <<request.user, request.category>> \in before.alerted

SendFailed ==
    BudgetChecked /\ request.fail = "send" /\ response.sends = 1

\* C6: when the send of an alert fails, check_budget returns normally and
\* both tables are as the call found them.
C6_SendFailureAbsorbed ==
    SendFailed =>
        /\ ~response.raised
        /\ response.result = None
        /\ TablesUnchanged

\* a send failed for a total that a stored transaction took over the limit
C6_Witness ==
    /\ SendFailed
    /\ ~response.raised
    /\ \E i \in 1..Len(transactions) :
          /\ transactions[i].userId = request.user
          /\ transactions[i].category = request.category

\* a store call of the pending invocation failed
StoreFailed ==
    \/ /\ request.op \in {"create_transaction", "create_budget"}
       /\ request.fail
       /\ response.error = "ServiceError"
    \/ /\ request.op \in {"get_transactions", "get_budgets", "analyze_spending"}
       /\ request.fail
    \/ /\ request.op = "budget_status"
       /\ request.fail \in {"budgets", "transactions"}
    \/ /\ request.op = "check_budget"
       /\ \/ request.fail = "get_item"
          \/ /\ request.fail = "query"
             /\ \E b \in before.budgets :
                   SameKey(b, request.user, request.category)

\* C10: a failed store call is reported to the caller: a handler answers
\* with statusCode 500, check_budget raises or returns something other than
\* the None of a normal return.
C10_StoreFailureSurfaces ==
    StoreFailed =>
        IF request.op = "check_budget"
        THEN response.raised \/ response.result # None
        ELSE response.statusCode = 500

(***************************************************************************)
(* C9: malformed payloads                                                  *)
(***************************************************************************)
Malformed ==
    \/ /\ request.op = "create_transaction"
       /\ request.amount.kind # "num" \/ request.category \notin Categories
    \/ /\ request.op = "create_budget"
       /\ request.limit.kind # "num" \/ request.category \notin Categories

\* C9: a create_transaction or create_budget whose amount, limit or
\* category is absent or malformed answers with an error and leaves both
\* tables as it found them.
C9_MalformedRejected ==
    Malformed =>
        /\ response.statusCode = 500
        /\ response.error # None
        /\ TablesUnchanged

\* a non-numeric limit was refused while both tables hold items
C9_Witness ==
    /\ request.op = "create_budget"
    /\ request.limit.kind = "text"
    /\ request.category \in Categories
    /\ response.statusCode = 500
    /\ budgets # {}
    /\ transactions # <<>>

(***************************************************************************)
(* C7, C8: create_budget                                                   *)
(***************************************************************************)
BudgetStored == response.op = "create_budget" /\ response.statusCode = 201

OtherKeys(table) ==
    {b \in table : ~SameKey(b, request.user, request.category)}

\* C7: the budgets table holds at most one item per (userId, category); a
\* stored create_budget leaves one item under its key, with the new limit,
\* and the items of every other key as they were.
C7_OneBudgetPerKey ==
    /\ \A b1, b2 \in budgets :
          SameKey(b1, b2.userId, b2.category) => b1 = b2
    /\ BudgetStored =>
          /\ \E b \in budgets :
                /\ SameKey(b, request.user, request.category)
                /\ b.limit = request.limit.v
          /\ OtherKeys(budgets) = OtherKeys(before.budgets)

\* a budget was overwritten with another limit next to a budget of another key
C7_Witness ==
    /\ BudgetStored
    /\ \E old \in before.budgets :
          /\ SameKey(old, request.user, request.category)
          /\ old.limit # request.limit.v
    /\ OtherKeys(budgets) # {}

\* C8: when create_budget overwrites a budget, the stored createdAt is the
\* one of the first creation and updatedAt is the time of the new write.
C8_CreatedAtKept ==
    BudgetStored =>
        \A old \in before.budgets, new \in budgets :
            (/\ SameKey(old, request.user, request.category)
             /\ SameKey(new, request.user, request.category))
                => new.createdAt = old.createdAt /\ new.updatedAt = clock

\* C11: every stored budget has a limit of zero or more; a create_budget
\* with a negative limit stores nothing.
C11_LimitNonNegative ==
    /\ \A b \in budgets : b.limit >= 0
    /\ (response.op = "create_budget" /\ request.limit.kind = "num"
           /\ request.limit.v < 0)
          => (response.statusCode # 201 /\ budgets = before.budgets)

(***************************************************************************)
(* C4, C5: budget_status                                                   *)
(***************************************************************************)
StatusDone == response.op = "budget_status" /\ response.statusCode = 200

BudgetsOf(table, user) == {b \in table : b.userId = user}

\* the transactions of the user in the window, whatever their category
InWindow(i) ==
    /\ before.transactions[i].userId = request.user
    /\ before.transactions[i].date[1] = Today[1]
    /\ before.transactions[i].date[2] = Today[2]
    /\ before.transactions[i].date[3] <= Today[3]

\* C4: budget_status answers with one entry per budget of the user, in the
\* order the store returns the budgets; the entry of a budget whose category
\* has no transaction in the window has spent = 0, and a category with
\* transactions but no budget has no entry.
C4_OneEntryPerBudget ==
    StatusDone =>
        LET status == response.budgetStatus
            stored == QueryBudgets(before.budgets, request.user)
        IN /\ Len(status) = Cardinality(BudgetsOf(before.budgets, request.user))
           /\ Len(status) = Len(stored)
           /\ \A i \in 1..Len(status) :
                 /\ status[i].category = stored[i].category
                 /\ status[i].limit = stored[i].limit
                 /\ status[i].spent = SpentInWindow(before.transactions,
                                                    request.user,
                                                    status[i].category)
                 /\ (\A j \in 1..Len(before.transactions) :
                        InWindow(j) =>
                            before.transactions[j].category # status[i].category)
                       => status[i].spent = 0
           /\ \A j \in 1..Len(before.transactions) :
                 (/\ InWindow(j)
                  /\ \A b \in BudgetsOf(before.budgets, request.user) :
                        b.category # before.transactions[j].category)
                    => \A i \in 1..Len(status) :
                          status[i].category # before.transactions[j].category

\* two entries, the second with spent = 0 for a category whose only
\* transaction is outside the window
C4_Witness ==
    /\ StatusDone
    /\ Len(response.budgetStatus) = 2
    /\ response.budgetStatus[1].spent > 0
    /\ response.budgetStatus[2].spent = 0
    /\ \E j \in 1..Len(before.transactions) :
          /\ before.transactions[j].userId = request.user
          /\ before.transactions[j].category = response.budgetStatus[2].category

RECURSIVE Pow10(_)
Pow10(q) == IF q = 0 THEN 1 ELSE 10 * Pow10(q - 1)

\* a <= b for natural numbers given as a leading part and 28 digits
BigLE(a, b) ==
    \/ a.carry < b.carry
    \/ /\ a.carry = b.carry
       /\ \/ a.digits = b.digits
          \/ \E i \in 1..Len(a.digits) :
                /\ a.digits[i] < b.digits[i]
                /\ \A j \in 1..(i - 1) : a.digits[j] = b.digits[j]

\* n * 10^z as a leading part and 28 digits, for n < 10^8
Shifted(n, z) ==
    [carry |-> IF z >= DecimalPrecision THEN n * Pow10(z - DecimalPrecision)
               ELSE n \div Pow10(DecimalPrecision - z),
     digits |-> [i \in 1..DecimalPrecision |->
                   LET q == DecimalPrecision - i - z
                   IN IF q < 0 \/ q > 8 THEN 0 ELSE (n \div Pow10(q)) % 10]]

\* x is n / d rounded to 28 significant digits: with x = C * 10^-z for the
\* 28-digit coefficient C, | C * d - n * 10^z | <= d / 2
NearestDecimal(x, n, d) ==
    IF n = 0 THEN x = DecimalZero
    ELSE /\ x # DecimalZero
         /\ Len(x.c) = DecimalPrecision
         /\ x.c[1] # 0
         /\ LET z == DecimalPrecision - 1 - x.e
                target == Shifted(2 * n, z)
            IN /\ BigLE(MulAdd(x.c, 2 * d, 0 - d, 10), target)
               /\ BigLE(target, MulAdd(x.c, 2 * d, d, 10))

\* C5: in every entry of a budget_status answer, remaining is limit - spent
\* (negative when over the limit) and percentageUsed is spent / limit * 100,
\* to the 28 digits of a Decimal, when limit > 0 and 0 when limit = 0; with
\* spent = limit > 0 it is 100 and remaining is 0.
C5_RemainingAndPercentage ==
    StatusDone =>
        \A i \in 1..Len(response.budgetStatus) :
            LET entry == response.budgetStatus[i]
            IN /\ entry.remaining = entry.limit - entry.spent
               /\ entry.limit > 0 =>
                     NearestDecimal(entry.percentageUsed, 100 * entry.spent,
                                    entry.limit)
               /\ entry.limit = 0 => entry.percentageUsed = DecimalZero
               /\ (entry.limit > 0 /\ entry.spent = entry.limit) =>
                     /\ entry.percentageUsed = Decimal100
                     /\ entry.remaining = 0

\* an entry over its limit whose percentage does not terminate, next to an
\* entry with limit 0 and spending
C5_Witness ==
    /\ StatusDone
    /\ \E i \in 1..Len(response.budgetStatus) :
          LET entry == response.budgetStatus[i]
          IN /\ entry.remaining < 0
             /\ entry.limit > 0
             /\ entry.percentageUsed.c[DecimalPrecision] # 0
    /\ \E i \in 1..Len(response.budgetStatus) :
          LET entry == response.budgetStatus[i]
          IN entry.limit = 0 /\ entry.spent > 0

(***************************************************************************)
(* C3: analyze_spending                                                    *)
(***************************************************************************)
AnalyzeDone == response.op = "analyze_spending" /\ response.statusCode = 200

\* the items the pending analyze_spending response was computed from
AnalyzedItems ==
    QueryByUserAndDateRange(before.transactions, request.user,
                            response.startDate, response.endDate)

\* C3: in every analyze_spending response, totalSpent is the sum of the
\* values of spendingByCategory and the sum of the amounts of the queried
\* transactions, and each category's entry is the sum of the amounts of the
\* queried transactions of that category.  A reported float equals a
\* two-digit decimal sum when it is the double nearest to it (the reported
\* number then prints as that decimal).
C3_AggregationConservesTotal ==
    AnalyzeDone =>
        /\ response.totalSpent = TotalSpent(response.spendingByCategory)
        /\ response.totalSpent = ToFloat(SumSeq(Amounts(AnalyzedItems)))
        /\ \A i \in 1..Len(response.spendingByCategory) :
              LET entry == response.spendingByCategory[i]
              IN entry.total =
                    ToFloat(SumSeq(Amounts(ItemsOfCategory(AnalyzedItems,
                                                           entry.category))))

(***************************************************************************)
(* C12: the date range of analyze_spending and get_transactions            *)
(***************************************************************************)
\* 'YYYY-MM-DD' strings compare as the numbers YYYYMMDD do
DateNumber(d) == d[1] * 10000 + d[2] * 100 + d[3]

DateRangeGiven == request.startDate # NoDate /\ request.endDate # NoDate

\* the positions of the requesting user's stored transactions dated within
\* the requested range, both ends included
InRange ==
    {i \in 1..Len(before.transactions) :
        /\ before.transactions[i].userId = request.user
        /\ DateNumber(request.startDate) <= DateNumber(before.transactions[i].date)
        /\ DateNumber(before.transactions[i].date) <= DateNumber(request.endDate)}

InRangeOfCategory(category) ==
    {i \in InRange : before.transactions[i].category = category}

\* the float total of n amounts of 0.10 added one after the other
TotalOfTenths(n) == FloatSum([j \in 1..n |-> ToFloat(10)])

\* analyze_spending aggregates exactly the transactions in range: a category
\* has an entry when it has one in range, and the entry totals them
AnalyzedRangeExact ==
    (AnalyzeDone /\ DateRangeGiven) =>
        /\ {response.spendingByCategory[i].category :
               i \in 1..Len(response.spendingByCategory)}
             = {c \in Categories : InRangeOfCategory(c) # {}}
        /\ \A i \in 1..Len(response.spendingByCategory) :
              LET entry == response.spendingByCategory[i]
              IN entry.total =
                    TotalOfTenths(Cardinality(InRangeOfCategory(entry.category)))

\* get_transactions answers a request with a date range with exactly the
\* transactions in range (of the category asked for, when one is)
ReturnedRangeExact ==
    (/\ response.op = "get_transactions"
     /\ DateRangeGiven
     /\ ~request.fail) =>
        /\ response.statusCode = 200
        /\ response.count = Len(response.transactions)
        /\ \A i, j \in 1..Len(response.transactions) :
              response.transactions[i].transactionId
                 = response.transactions[j].transactionId => i = j
        /\ {response.transactions[i].transactionId :
               i \in 1..Len(response.transactions)}
             = IF request.category = Absent THEN InRange
               ELSE InRangeOfCategory(request.category)

\* C12: for a request with startDate and endDate, analyze_spending
\* aggregates and get_transactions returns exactly the requesting user's
\* stored transactions whose date lies between the two dates, both included:
\* one dated endDate is in, one dated the day after is out, and no other
\* user's transaction is in.
C12_DateRangeInclusive == AnalyzedRangeExact /\ ReturnedRangeExact
====
